---- MODULE Spec2Model ----
(***************************************************************************)
(* Model of siws/siws.py: the SiwsMessage model, its field validation at   *)
(* construction, prepare_message() and verify().                           *)
(*                                                                         *)
(* Representation.  A Python str is a sequence of one-character strings;   *)
(* the literal pieces of the message layout ("URI: ", "\n", ...) are       *)
(* single tokens of such a sequence.  An Optional value is None (the empty *)
(* tuple) or Some(v) (the one-element tuple <<v>>).  A datetime is a       *)
(* natural number of clock ticks.                                          *)
(***************************************************************************)
EXTENDS Integers, Sequences, FiniteSets, TLC

VARIABLES msg, op, arg, result, text, checks, decoded, primitive, vtime, parsed

vars == <<msg, op, arg, result, text, checks, decoded, primitive, vtime, parsed>>

----------------------------------------------------------------------------
(* Bounds of the model *)

MaxTime == 3
MaxChainId == 2
MaxNonceLen == 8

(* Program constants *)

MinNonceLen == 8
MinResources == 1

----------------------------------------------------------------------------
(* Optional values and Python truthiness *)

None == << >>
Some(v) == <<v>>

\* bool(x) for x : Optional[str] or Optional[list]: None and the empty
\* string or list are falsy.
Truthy(o) == o # None /\ Len(o[1]) > 0

\* bool(x) for x : Optional[datetime]: a datetime is always truthy.
TruthyTime(o) == o # None

Times == 1..MaxTime

----------------------------------------------------------------------------
(* Text helpers *)

NL == <<"\n">>

RECURSIVE Join(_, _)
\* sep.join(parts)
Join(parts, sep) ==
    IF Len(parts) = 0 THEN << >>
    ELSE IF Len(parts) = 1 THEN parts[1]
    ELSE parts[1] \o sep \o Join(Tail(parts), sep)

DigitChar == <<"0", "1", "2", "3", "4", "5", "6", "7", "8", "9">>

RECURSIVE IntStr(_)
\* str(n) for n >= 0, as an f-string formats an int
IntStr(n) ==
    IF n < 10 THEN <<DigitChar[n + 1]>>
    ELSE IntStr(n \div 10) \o <<DigitChar[(n % 10) + 1]>>

\* ^[^...]+$ : a non-empty string none of whose characters is excluded
MatchesNegatedClassPlus(s, excluded) ==
    /\ Len(s) >= 1
    /\ \A i \in 1..Len(s) : s[i] \notin excluded

----------------------------------------------------------------------------
(* Timestamps.  CustomDateTime (siws/custom_types.py) is the ISO-8601 text *)
(* of an instant; the text of instant t is "T" followed by its digits.     *)

Iso(t) == <<"T">> \o IntStr(t)

DigitVal(c) == CHOOSE d \in 0..9 : DigitChar[d + 1] = c

IsDigit(c) == \E d \in 0..9 : DigitChar[d + 1] = c

RECURSIVE StrInt(_)
\* int(s) for a non-empty string of digits
StrInt(s) ==
    IF Len(s) = 1 THEN DigitVal(s[1])
    ELSE 10 * StrInt(SubSeq(s, 1, Len(s) - 1)) + DigitVal(s[Len(s)])

\* CustomDateTime validation: the text parses as a timestamp
IsCustomDateTime(s) ==
    /\ Len(s) >= 2
    /\ s[1] = "T"
    /\ \A i \in 2..Len(s) : IsDigit(s[i])

\* The instant a CustomDateTime denotes (its .date)
Date(c) == StrInt(Tail(c))

----------------------------------------------------------------------------
(* Field validators (the Field(...) declarations of SiwsMessage) *)

\* domain: str = Field(pattern="^[^/?#]+$")
DomainValid(d) == MatchesNegatedClassPlus(d, {"/", "?", "#"})

\* NonceValid with the length bound off by one
NonceValidOffByOne(n) == Len(n) >= MinNonceLen - 1

\* nonce: str = Field(min_length=8)
NonceValid(n) == Len(n) >= MinNonceLen

\* chain_id: NonNegativeInt
ChainIdValid(c) == c >= 0

\* statement: Optional[str] = Field(None, pattern="^[^\n]+$")
StatementValid(s) == s = None \/ MatchesNegatedClassPlus(s[1], {"\n"})

\* AnyUrl validation: the text has a scheme followed by ':'
AnyUrlValid(u) ==
    \E i \in 2..Len(u) : u[i] = ":" /\ \A j \in 1..(i - 1) : u[j] # ":"

\* resources: list[AnyUrl] = Field(None, min_length=1)
ResourcesValid(r) ==
    \/ r = None
    \/ /\ Len(r[1]) >= MinResources
       /\ \A i \in 1..Len(r[1]) : AnyUrlValid(r[1][i])

\* issued_at: CustomDateTime -- declared without a default, so required
IssuedAtValid(t) == t # None /\ IsCustomDateTime(t[1])

\* expiration_time, not_before: Optional[CustomDateTime] = Field(None)
OptionalTimeValid(t) == t = None \/ IsCustomDateTime(t[1])

\* super().__init__(**message_dict): every field validator passes
FieldsValid(f) ==
    /\ DomainValid(f.domain)
    /\ AnyUrlValid(f.uri)
    /\ ChainIdValid(f.chain_id)
    /\ IssuedAtValid(f.issued_at)
    /\ NonceValid(f.nonce)
    /\ StatementValid(f.statement)
    /\ OptionalTimeValid(f.expiration_time)
    /\ OptionalTimeValid(f.not_before)
    /\ ResourcesValid(f.resources)

----------------------------------------------------------------------------
(* prepare_message() *)

\* if self.issued_at is None: self.issued_at = datetime.utcnow().isoformat()
FillIssuedAt(m, now) ==
    IF m.issued_at = None THEN [m EXCEPT !.issued_at = Some(Iso(now))] ELSE m

\* f"Chain ID: {self.chain_id or 1}"
ChainField(m) ==
    <<"Chain ID: ">> \o IntStr(IF m.chain_id # 0 THEN m.chain_id ELSE 1)

\* "\n".join(["Resources:"] + [f"- {resource}" for resource in self.resources])
ResourcesBlock(rs) ==
    Join(<< <<"Resources:">> >> \o [i \in 1..Len(rs) |-> <<"- ">> \o rs[i]], NL)

\* suffix_array, in the order the code appends to it
SuffixArray(m) ==
    << <<"URI: ">> \o m.uri,
       <<"Version: ">> \o m.version,
       ChainField(m),
       <<"Nonce: ">> \o m.nonce,
       <<"Issued At: ">> \o m.issued_at[1] >>
    \o (IF Truthy(m.expiration_time)
          THEN << <<"Expiration Time: ">> \o m.expiration_time[1] >> ELSE << >>)
    \o (IF Truthy(m.not_before)
          THEN << <<"Not Before: ">> \o m.not_before[1] >> ELSE << >>)
    \o (IF Truthy(m.request_id)
          THEN << <<"Request ID: ">> \o m.request_id[1] >> ELSE << >>)
    \o (IF Truthy(m.resources)
          THEN << ResourcesBlock(m.resources[1]) >> ELSE << >>)

\* The text prepare_message() returns for a message whose issued_at is set
PreparedText(m) ==
    LET header == m.domain \o <<" wants you to sign in with your Solana account:">>
        prefix0 == Join(<<header, m.address>>, NL)
        suffix == Join(SuffixArray(m), NL)
        prefix == IF Truthy(m.statement)
                    THEN Join(<<prefix0, m.statement[1]>>, NL \o NL)
                    ELSE prefix0 \o NL
    IN Join(<<prefix, suffix>>, NL \o NL)

----------------------------------------------------------------------------
(* Collaborators of verify(): base58, str.encode and the Ed25519 primitive *)

NonBase58Chars == {"0", "O", "I", "l"}

\* str.encode(): the bytes of a text
Encode(t) == <<"bytes">> \o t

\* base58.b58decode(s): raises ValueError on a character outside the alphabet
B58Decodes(s) == \A i \in 1..Len(s) : s[i] \notin NonBase58Chars

B58Decode(s) == <<"bytes">> \o s

B58Encode(b) == Tail(b)

\* The Ed25519 signature of message bytes under the key pair of `key`
Sign(key, message) == <<"bytes", "ed25519">> \o Tail(key) \o <<"|">> \o Tail(message)

\* VerifyKey(key).verify(message, signature_bytes) does not raise
\* BadSignatureError
PrimitiveAccepts(key, message, signature_bytes) ==
    signature_bytes = Sign(key, message)

----------------------------------------------------------------------------
(* verify(): the contextual checks, each as the code evaluates it *)

\* domain and domain != self.domain
DomainCheckFails(m, domain) == Truthy(domain) /\ domain[1] # m.domain

\* nonce and self.nonce != nonce
NonceCheckFails(m, nonce) == Truthy(nonce) /\ m.nonce # nonce[1]

\* ExpirationCheckFails with the boundary exclusive
ExpirationCheckFailsStrict(m, verification_time) ==
    Truthy(m.expiration_time) /\ verification_time > Date(m.expiration_time[1])

\* self.expiration_time and verification_time >= self.expiration_time
\* (the CustomDateTime is ordered against the datetime by the instant it
\* denotes)
ExpirationCheckFails(m, verification_time) ==
    Truthy(m.expiration_time) /\ verification_time >= Date(m.expiration_time[1])

\* NotBeforeCheckFails with the boundary exclusive
NotBeforeCheckFailsStrict(m, verification_time) ==
    Truthy(m.not_before) /\ verification_time < Date(m.not_before[1])

\* self.not_before and verification_time <= self.not_before.date
NotBeforeCheckFails(m, verification_time) ==
    Truthy(m.not_before) /\ verification_time <= Date(m.not_before[1])

\* ContextError with the nonce compared before the domain
ContextErrorNonceFirst(m, domain, nonce, verification_time) ==
    IF NonceCheckFails(m, nonce) THEN "NonceMismatch"
    ELSE IF DomainCheckFails(m, domain) THEN "DomainMismatch"
    ELSE IF ExpirationCheckFails(m, verification_time) THEN "ExpiredMessage"
    ELSE IF NotBeforeCheckFails(m, verification_time) THEN "NotYetValidMessage"
    ELSE "none"

\* The if / elif chain: the error of the first condition that is true,
\* "none" when every condition is false
ContextError(m, domain, nonce, verification_time) ==
    IF DomainCheckFails(m, domain) THEN "DomainMismatch"
    ELSE IF NonceCheckFails(m, nonce) THEN "NonceMismatch"
    ELSE IF ExpirationCheckFails(m, verification_time) THEN "ExpiredMessage"
    ELSE IF NotBeforeCheckFails(m, verification_time) THEN "NotYetValidMessage"
    ELSE "none"

\* The conditions of the chain that were evaluated, in order
ContextChecksEvaluated(m, domain, nonce, verification_time) ==
    IF DomainCheckFails(m, domain) THEN <<"domain">>
    ELSE IF NonceCheckFails(m, nonce) THEN <<"domain", "nonce">>
    ELSE IF ExpirationCheckFails(m, verification_time)
        THEN <<"domain", "nonce", "expiration">>
    ELSE <<"domain", "nonce", "expiration", "not_before">>

\* The try block: what was decoded, the call of the primitive, the outcome.
\* Only BadSignatureError is caught; a ValueError of b58decode propagates.
CryptoStep(m, message, signature) ==
    IF ~B58Decodes(m.address)
        THEN [decoded |-> <<"address">>, primitive |-> None,
              result |-> "ValueError"]
    ELSE IF ~B58Decodes(signature)
        THEN [decoded |-> <<"address", "signature">>, primitive |-> None,
              result |-> "ValueError"]
    ELSE LET key == B58Decode(m.address)
             signature_bytes == B58Decode(signature)
             accepted == PrimitiveAccepts(key, message, signature_bytes)
         IN [decoded |-> <<"address", "signature">>,
             primitive |-> Some([key |-> key, message |-> message,
                                 signature |-> signature_bytes,
                                 accepted |-> accepted]),
             result |-> IF accepted THEN "ok" ELSE "InvalidSignature"]

\* VerifyOutcome with the try block run before the contextual checks
VerifyOutcomeDecodeFirst(m, signature, domain, nonce, verification_time) ==
    LET message == Encode(PreparedText(m))
        c == CryptoStep(m, message, signature)
        err == ContextError(m, domain, nonce, verification_time)
        evaluated == ContextChecksEvaluated(m, domain, nonce, verification_time)
    IN [checks |-> evaluated, decoded |-> c.decoded, primitive |-> c.primitive,
        result |-> IF err # "none" THEN err ELSE c.result]

\* The whole of one verify() call on message m
VerifyOutcome(m, signature, domain, nonce, verification_time) ==
    LET message == Encode(PreparedText(m))
        err == ContextError(m, domain, nonce, verification_time)
        evaluated == ContextChecksEvaluated(m, domain, nonce, verification_time)
    IN IF err # "none"
         THEN [checks |-> evaluated, decoded |-> << >>, primitive |-> None,
               result |-> err]
         ELSE LET c == CryptoStep(m, message, signature)
              IN [checks |-> evaluated, decoded |-> c.decoded,
                  primitive |-> c.primitive, result |-> c.result]

----------------------------------------------------------------------------
(* The message parsers (siws/parsed.py), on the layout of prepare_message() *)

RECURSIVE Split(_)
\* s.split("\n")
Split(s) ==
    IF \A i \in 1..Len(s) : s[i] # "\n" THEN <<s>>
    ELSE LET i == CHOOSE k \in 1..Len(s) :
                      s[k] = "\n" /\ \A j \in 1..(k - 1) : s[j] # "\n"
         IN <<SubSeq(s, 1, i - 1)>> \o Split(SubSeq(s, i + 1, Len(s)))

IsResourceLine(line) == Len(line) >= 1 /\ line[1] = "- "

\* The field mapping both parser strategies produce
ParseMessage(t) ==
    LET lines == Split(t)
        header == lines[1]
        hasStatement == lines[4] # << >>
        rest == SubSeq(lines, IF hasStatement THEN 6 ELSE 5, Len(lines))
        Tagged(label) ==
            {i \in 1..Len(rest) : Len(rest[i]) >= 1 /\ rest[i][1] = label}
        Value(label) == Tail(rest[CHOOSE i \in Tagged(label) : TRUE])
        Opt(label) == IF Tagged(label) = {} THEN None ELSE Some(Value(label))
        resourceLines == SelectSeq(rest, IsResourceLine)
    IN [domain |-> SubSeq(header, 1, Len(header) - 1),
        address |-> lines[2],
        uri |-> Value("URI: "),
        version |-> Value("Version: "),
        chain_id |-> StrInt(Value("Chain ID: ")),
        issued_at |-> Opt("Issued At: "),
        nonce |-> Value("Nonce: "),
        statement |-> IF hasStatement THEN Some(lines[4]) ELSE None,
        expiration_time |-> Opt("Expiration Time: "),
        not_before |-> Opt("Not Before: "),
        request_id |-> Opt("Request ID: "),
        resources |-> IF Tagged("Resources:") = {} THEN None
                      ELSE Some([i \in 1..Len(resourceLines) |->
                                     Tail(resourceLines[i])])]

----------------------------------------------------------------------------
(* Inputs *)

NonceOf(len, c) == [i \in 1..len |-> IF i = 1 THEN c ELSE "n"]

GoodUri == <<"h", ":", "a">>
OtherUri == <<"h", ":", "b">>
BadUri == <<"h">>

GoodAddress == <<"K", "1">>
OtherAddress == <<"K", "2">>
BadAddress == <<"K", "0">>

OptTimes == {None} \cup {Some(Iso(t)) : t \in Times}

\* Field sets handed to the constructor, valid and invalid
FieldSets ==
    [domain : {<<"a">>, <<"a", "/", "b">>, <<"?">>, <<"a", "#">>, << >>},
     address : {GoodAddress},
     uri : {GoodUri, BadUri},
     version : {<<"1">>},
     chain_id : (-1)..MaxChainId,
     issued_at : {None, Some(Iso(1))},
     nonce : {NonceOf(n, "n") : n \in (MinNonceLen - 1)..MaxNonceLen},
     statement : {None, Some(<< >>), Some(<<"s">>), Some(<<"s", "\n", "s">>)},
     expiration_time : {None, Some(Iso(MaxTime))},
     not_before : {None, Some(Iso(1))},
     request_id : {None, Some(<< >>), Some(<<"r">>)},
     resources : {None, Some(<< >>), Some(<<GoodUri>>),
                  Some(<<GoodUri, OtherUri>>), Some(<<GoodUri, BadUri>>)}]

\* Field sets of the verification scenarios: the time window and the
\* address vary
VerifyFieldSets ==
    [domain : {<<"a">>},
     address : {GoodAddress, BadAddress},
     uri : {GoodUri},
     version : {<<"1">>},
     chain_id : {1},
     issued_at : {Some(Iso(1))},
     nonce : {NonceOf(MinNonceLen, "n")},
     statement : {None},
     expiration_time : OptTimes,
     not_before : OptTimes,
     request_id : {None},
     resources : {None}]

\* The signature texts a caller passes for message m: the signature of the
\* address's key over the prepared text, one by another key, and a text
\* that is not base58
Signatures(m) ==
    LET message == Encode(PreparedText(m))
    IN {B58Encode(Sign(B58Decode(m.address), message)),
        B58Encode(Sign(B58Decode(OtherAddress), message)),
        <<"0">>}

ExpectedDomains == {None, Some(<< >>), Some(<<"a">>), Some(<<"b">>)}

ExpectedNonces ==
    {None, Some(<< >>), Some(NonceOf(MinNonceLen, "n")),
     Some(NonceOf(MinNonceLen, "x"))}

Timestamps == {None} \cup {Some(t) : t \in Times}

VerifyArgs(m) ==
    [signature : Signatures(m), domain : ExpectedDomains,
     nonce : ExpectedNonces, timestamp : Timestamps]

\* The calls explored beside construction and serialization
FewVerifyArgs(m) ==
    [signature : Signatures(m), domain : {None, Some(<<"b">>)},
     nonce : {None}, timestamp : {Some(MaxTime)}]

----------------------------------------------------------------------------
(* State machine *)

Init ==
    /\ msg = None
    /\ op = "none"
    /\ arg = None
    /\ result = "none"
    /\ text = None
    /\ checks = << >>
    /\ decoded = << >>
    /\ primitive = None
    /\ vtime = 0
    /\ parsed = None

\* SiwsMessage(message: dict): the value exists iff every validator passes.
\* A behaviour follows one message: the constructor runs once, first.
Construct(f) ==
    /\ op = "none"
    /\ msg' = IF FieldsValid(f) THEN Some(f) ELSE None
    /\ result' = IF FieldsValid(f) THEN "ok" ELSE "ValidationError"
    /\ op' = "construct"
    /\ arg' = f
    /\ text' = None
    /\ checks' = << >>
    /\ decoded' = << >>
    /\ primitive' = None
    /\ vtime' = 0
    /\ parsed' = None

\* prepare_message()
PrepareMessage(now) ==
    /\ msg # None
    /\ LET m == FillIssuedAt(msg[1], now)
       IN /\ msg' = Some(m)
          /\ text' = Some(PreparedText(m))
    /\ op' = "prepare"
    /\ arg' = None
    /\ result' = "ok"
    /\ UNCHANGED <<checks, decoded, primitive, vtime, parsed>>

\* verify(signature, domain=, nonce=, timestamp=)
Verify(a, now) ==
    /\ msg # None
    /\ LET m == FillIssuedAt(msg[1], now)
           verification_time ==
               IF ~TruthyTime(a.timestamp) THEN now ELSE a.timestamp[1]
           out == VerifyOutcome(m, a.signature, a.domain, a.nonce,
                                verification_time)
       IN /\ msg' = Some(m)
          /\ vtime' = verification_time
          /\ checks' = out.checks
          /\ decoded' = out.decoded
          /\ primitive' = out.primitive
          /\ result' = out.result
    /\ op' = "verify"
    /\ arg' = a
    /\ UNCHANGED <<text, parsed>>

\* SiwsMessage(message: str, abnf): parse the text prepare_message()
\* returned, then validate the field mapping
ConstructFromText(abnf) ==
    /\ text # None
    /\ LET f == ParseMessage(text[1])
       IN /\ parsed' = IF FieldsValid(f) THEN Some(f) ELSE None
          /\ result' = IF FieldsValid(f) THEN "ok" ELSE "ValidationError"
    /\ op' = "parse"
    /\ arg' = abnf
    /\ UNCHANGED <<msg, text, checks, decoded, primitive, vtime>>

Next ==
    \/ /\ op = "none"
       /\ \E f \in FieldSets : Construct(f)
    \/ \E now \in Times : PrepareMessage(now)
    \/ /\ msg # None
       /\ \E now \in Times : \E a \in FewVerifyArgs(FillIssuedAt(msg[1], now)) :
              Verify(a, now)
    \/ \E abnf \in BOOLEAN : ConstructFromText(abnf)

Spec == Init /\ [][Next]_vars

\* One verify() call, with every combination of its arguments, on a message
\* that was constructed and possibly serialized
NextVerify ==
    \/ /\ op = "none"
       /\ \E f \in VerifyFieldSets : Construct(f)
    \/ /\ op # "verify"
       /\ \E now \in Times : PrepareMessage(now)
    \/ /\ msg # None
       /\ op # "verify"
       /\ \E now \in Times : \E a \in VerifyArgs(FillIssuedAt(msg[1], now)) :
              Verify(a, now)

SpecVerify == Init /\ [][NextVerify]_vars

----------------------------------------------------------------------------
(* Properties *)

ContextualErrors ==
    {"DomainMismatch", "NonceMismatch", "ExpiredMessage", "NotYetValidMessage"}

ErrorTaxonomy ==
    ContextualErrors \cup {"InvalidSignature", "MalformedAddressOrSignature"}

\* C1: verify() returns success only if a supplied expected domain equals
\* the message's domain, a supplied expected nonce equals the message's
\* nonce, expiration_time is unset or verification_time is before it,
\* not_before is unset or verification_time is after it, and the primitive
\* accepted the decoded address, the bytes of prepare_message() and the
\* decoded signature.
C1_NoSkipPath ==
    (op = "verify" /\ result = "ok") =>
        LET m == msg[1]
        IN /\ arg.domain # None => arg.domain[1] = m.domain
           /\ arg.nonce # None => arg.nonce[1] = m.nonce
           /\ m.expiration_time = None \/ vtime < Date(m.expiration_time[1])
           /\ m.not_before = None \/ vtime > Date(m.not_before[1])
           /\ primitive # None
           /\ primitive[1].accepted
           /\ primitive[1].key = B58Decode(m.address)
           /\ primitive[1].message = Encode(PreparedText(m))
           /\ primitive[1].signature = B58Decode(arg.signature)

C3_NoCryptoOnContextFailure ==
    (op = "verify" /\ result \in ContextualErrors) =>
        decoded = << >> /\ primitive = None

\* A DomainMismatch for a call whose address and signature would decode
C3_Witness ==
    /\ op = "verify"
    /\ result = "DomainMismatch"
    /\ B58Decodes(msg[1].address)
    /\ B58Decodes(arg.signature)

C5_NotBeforeInclusive ==
    (/\ op = "verify"
     /\ msg[1].not_before # None
     /\ ~DomainCheckFails(msg[1], arg.domain)
     /\ ~NonceCheckFails(msg[1], arg.nonce)
     /\ ~ExpirationCheckFails(msg[1], vtime)) =>
        LET T == Date(msg[1].not_before[1])
        IN /\ vtime <= T => result = "NotYetValidMessage"
           /\ vtime > T => result # "NotYetValidMessage"

\* verification_time exactly at not_before: NotYetValidMessage
C5_Witness ==
    /\ op = "verify"
    /\ msg[1].not_before # None
    /\ vtime = Date(msg[1].not_before[1])
    /\ result = "NotYetValidMessage"

\* C6: parsing the text prepare_message() returned yields a field set equal
\* to the message's, field by field, for every message that passed
\* construction.
C6_RoundTrip ==
    op = "parse" => parsed = msg

\* The rules C7 names, read off a field set
RulesOfC7(f) ==
    /\ \A i \in 1..Len(f.domain) : f.domain[i] \notin {"/", "?", "#"}
    /\ Len(f.nonce) >= 8
    /\ f.chain_id >= 0
    /\ f.statement # None =>
           \A i \in 1..Len(f.statement[1]) : f.statement[1][i] # "\n"
    /\ f.resources # None => Len(f.resources[1]) >= 1

\* C7: every message that exists, after construction and after any
\* sequence of prepare_message() and verify() calls, satisfies the rules
\* on domain, nonce, chain_id, statement and resources; a field set
\* violating one of them raises an error and produces no message.
C7_ValidationGate ==
    /\ msg # None => RulesOfC7(msg[1])
    /\ (op = "construct" /\ ~RulesOfC7(arg)) =>
           result = "ValidationError" /\ msg = None

\* A field set whose only fault is a nonce of length 7 is rejected
C7_Witness ==
    /\ op = "construct"
    /\ Len(arg.nonce) = 7
    /\ FieldsValid([arg EXCEPT !.nonce = NonceOf(8, "n")])
    /\ result = "ValidationError"
    /\ msg = None

\* C8: when the contextual checks pass, an address or signature that does
\* not decode makes verify() fail with MalformedAddressOrSignature, a
\* signature the primitive rejects makes it fail with InvalidSignature,
\* and every failing call ends in an error of the taxonomy.
C8_ErrorTaxonomy ==
    op = "verify" =>
        LET m == msg[1]
            contextOk == ContextError(m, arg.domain, arg.nonce, vtime) = "none"
            decodes == B58Decodes(m.address) /\ B58Decodes(arg.signature)
        IN /\ (contextOk /\ ~decodes) => result = "MalformedAddressOrSignature"
           /\ (contextOk /\ decodes /\ ~primitive[1].accepted) =>
                  result = "InvalidSignature"
           /\ result # "ok" => result \in ErrorTaxonomy

\* C9: a field set without issued_at, valid otherwise, constructs a message
\* (whose issued_at the first prepare_message() then fills).
C9_IssuedAtOptional ==
    (/\ op = "construct"
     /\ arg.issued_at = None
     /\ FieldsValid([arg EXCEPT !.issued_at = Some(Iso(1))])) =>
        result = "ok" /\ msg # None

\* The lines C10 names, in order; a field is present when it is not None
LinesOfC10(m) ==
    << m.domain \o <<" wants you to sign in with your Solana account:">>,
       m.address >>
    \o (IF m.statement # None THEN << << >>, m.statement[1], << >> >>
                              ELSE << << >>, << >> >>)
    \o << <<"URI: ">> \o m.uri,
          <<"Version: ">> \o m.version,
          <<"Chain ID: ">> \o IntStr(IF m.chain_id = 0 THEN 1 ELSE m.chain_id),
          <<"Nonce: ">> \o m.nonce,
          <<"Issued At: ">> \o m.issued_at[1] >>
    \o (IF m.expiration_time # None
          THEN << <<"Expiration Time: ">> \o m.expiration_time[1] >> ELSE << >>)
    \o (IF m.not_before # None
          THEN << <<"Not Before: ">> \o m.not_before[1] >> ELSE << >>)
    \o (IF m.request_id # None
          THEN << <<"Request ID: ">> \o m.request_id[1] >> ELSE << >>)
    \o (IF m.resources # None
          THEN << <<"Resources:">> >>
               \o [i \in 1..Len(m.resources[1]) |-> <<"- ">> \o m.resources[1][i]]
          ELSE << >>)

\* C10: the lines of prepare_message() are the header, the address, the
\* statement if present, then URI, Version, Chain ID, Nonce, Issued At,
\* Expiration Time, Not Before, Request ID and the resources, each optional
\* line appearing exactly when its field is present.
C10_Layout ==
    op = "prepare" => Split(text[1]) = LinesOfC10(msg[1])

====
